---- MODULE Spec2Model ----
(***************************************************************************)
(* Model of app.py: the PDF analysis pipeline (analyze_pdf), the regular   *)
(* expression extractor (extract_medical_data), the chart writer           *)
(* (create_visualizations) and the report builder (generate_report).       *)
(*                                                                         *)
(* Text is a sequence of lexical tokens (label words, a separator, number  *)
(* literals, blocks of other characters, page markers).  Measurements are  *)
(* IEEE-754 doubles, held exactly as natural numbers in units of 2^-52     *)
(* (little-endian limbs of 13 bits), so that float(), np.mean and round()  *)
(* are computed bit for bit.  All literals of the model are >= 1 and all   *)
(* intermediate values are below 2^20, the range in which a double is a    *)
(* multiple of 2^-52.                                                      *)
(***************************************************************************)
EXTENDS Integers, Sequences, FiniteSets, TLC

\* ------------------------------------------------------------------ bounds
MaxTextLen == 4      \* tokens of a text given to the extractor alone
MaxSeqLen == 3       \* values per kind of an ExtractionResult given to the report builder alone
MaxClock == 1        \* wall-clock seconds that pass
MaxRequests == 2     \* requests served

\* ------------------------------------- exact naturals in limbs of 13 bits
Base == 2^13
FracLimbs == <<0, 0, 0, 0>>

RECURSIVE BNorm(_)
BNorm(a) ==
    IF a = <<>> THEN <<>>
    ELSE IF a[Len(a)] = 0 THEN BNorm(SubSeq(a, 1, Len(a) - 1)) ELSE a

RECURSIVE IntToBig(_)
IntToBig(n) == IF n = 0 THEN <<>> ELSE <<n % Base>> \o IntToBig(n \div Base)

RECURSIVE BigToInt(_)
BigToInt(a) == IF a = <<>> THEN 0 ELSE a[1] + Base * BigToInt(Tail(a))

Limb(a, i) == IF i <= Len(a) THEN a[i] ELSE 0

RECURSIVE BAddC(_, _, _)
BAddC(a, b, c) ==
    IF a = <<>> /\ b = <<>> THEN (IF c = 0 THEN <<>> ELSE <<c>>)
    ELSE LET s == Limb(a, 1) + Limb(b, 1) + c
         IN  <<s % Base>> \o BAddC(IF a = <<>> THEN a ELSE Tail(a),
                                   IF b = <<>> THEN b ELSE Tail(b), s \div Base)

BAdd(a, b) == BNorm(BAddC(a, b, 0))

RECURSIVE BMulC(_, _, _)
BMulC(a, m, c) ==
    IF a = <<>> THEN IntToBig(c)
    ELSE LET s == a[1] * m + c IN <<s % Base>> \o BMulC(Tail(a), m, s \div Base)

BMulSmall(a, m) == BNorm(BMulC(a, m, 0))

\* long division of a by the small divisor d, most significant limb first
RECURSIVE BDivR(_, _, _)
BDivR(a, d, i) ==
    IF i > Len(a) THEN [q |-> <<>>, r |-> 0]
    ELSE LET hi  == BDivR(a, d, i + 1)
             cur == hi.r * Base + a[i]
         IN  [q |-> <<cur \div d>> \o hi.q, r |-> cur % d]

BDivSmall(a, d) == LET x == BDivR(a, d, 1) IN [q |-> BNorm(x.q), r |-> x.r]

RECURSIVE BCmpAt(_, _, _)
BCmpAt(a, b, i) ==
    IF i = 0 THEN 0
    ELSE IF Limb(a, i) < Limb(b, i) THEN -1
    ELSE IF Limb(a, i) > Limb(b, i) THEN 1
    ELSE BCmpAt(a, b, i - 1)

BCmp(a, b) == BCmpAt(a, b, IF Len(a) > Len(b) THEN Len(a) ELSE Len(b))

RECURSIVE IntBits(_)
IntBits(n) == IF n = 0 THEN 0 ELSE 1 + IntBits(n \div 2)

BitLen(a) == IF a = <<>> THEN 0 ELSE 13 * (Len(a) - 1) + IntBits(a[Len(a)])

\* a mod 2^s and a - (a mod 2^s), for s <= 26 and a of two limbs or more
Low(q, s) ==
    IF s <= 13 THEN Limb(q, 1) % (2^s)
    ELSE Limb(q, 1) + Base * (Limb(q, 2) % (2^(s - 13)))

ClearLow(q, s) ==
    IF s <= 13 THEN [q EXCEPT ![1] = @ - (@ % (2^s))]
    ELSE [q EXCEPT ![1] = 0, ![2] = @ - (@ % (2^(s - 13)))]

\* -------------------------------------------------- IEEE-754 binary64
\* The double nearest to p/d (p exact, in units of 2^-52; d a small positive
\* integer), ties to even: every arithmetic operation of a double rounds so.
RoundNearestEven(p, d) ==
    LET x     == BDivSmall(p, d)
        L     == BitLen(x.q)
        s     == IF L > 53 THEN L - 53 ELSE 0
        low   == Low(x.q, s)
        down  == ClearLow(x.q, s)
        up    == BAdd(down, IntToBig(2^s))
        twice == 2 * (low * d + x.r)
        half2 == (2^s) * d
        odd   == Low(x.q, s + 1) >= 2^s
    IN  IF x.q = <<>> THEN <<>>
        ELSE IF twice < half2 THEN down
        ELSE IF twice > half2 THEN up
        ELSE IF odd THEN up ELSE down

FromInt(n) == BNorm(FracLimbs \o IntToBig(n))

\* float("w.mmm"): the double nearest to n/1000
ParseMilli(n) == RoundNearestEven(FromInt(n), 1000)

FAdd(x, y) == RoundNearestEven(BAdd(x, y), 1)
FDiv(x, n) == RoundNearestEven(x, n)
FMul100(x) == RoundNearestEven(BMulSmall(x, 100), 1)

Half == <<0, 0, 0, Base \div 2>>

\* the integer nearest to the exact value a (units of 2^-52), ties to even
RintHalfEven(a) ==
    LET ip == BigToInt(SubSeq(a, 5, Len(a)))
        fr == BNorm(SubSeq(a, 1, IF Len(a) < 4 THEN Len(a) ELSE 4))
        c  == BCmp(fr, Half)
    IN  IF c < 0 THEN ip
        ELSE IF c > 0 THEN ip + 1
        ELSE IF ip % 2 = 0 THEN ip ELSE ip + 1

\* round(x, 2) of a Python float: the exact binary value of x, correctly
\* rounded to two decimals.  The result is the double nearest to h/100 and
\* is held as its number of hundredths h.
PyRound2(x) == RintHalfEven(BMulSmall(x, 100))

\* round(x, 2) of a numpy.float64: rint(x * 100.0) / 100.0, the product
\* itself rounded to a double first.  Held as its number of hundredths.
NpRound2(x) == RintHalfEven(FMul100(x))

\* ------------------------------------------------------ Python values
PyFloat(x) == [type |-> "float", v |-> x]
PyNone == [type |-> "NoneType", v |-> <<>>]

\* ------------------------------------------------------------- tokens
Word(s, n) == [tok |-> "word", s |-> s, whole |-> 0, milli |-> 0, w |-> n]
Sep == [tok |-> "sep", s |-> ":", whole |-> 0, milli |-> 0, w |-> 1]
IntLit(n, width) == [tok |-> "int", s |-> "", whole |-> n, milli |-> 0, w |-> width]
DecLit(n, m, width) == [tok |-> "dec", s |-> "", whole |-> n, milli |-> m, w |-> width]
Other(width) == [tok |-> "other", s |-> "", whole |-> 0, milli |-> 0, w |-> width]
PageMarker(i) == [tok |-> "page", s |-> "", whole |-> i, milli |-> 0, w |-> 15]
Newline == [tok |-> "nl", s |-> "", whole |-> 0, milli |-> 0, w |-> 1]

\* ---------------------------------------------------- MEDICAL_PATTERNS
Kinds == {"rbc", "systolic", "diastolic", "glucose"}

\* a pattern is its label and the shape of its capturing group:
\* "dec" is (\d+\.\d+), "int" is (\d+)
Pattern(label, group) == [label |-> label, group |-> group]

MEDICAL_PATTERNS ==
    [k \in Kinds |->
        CASE k = "rbc" ->
               <<Pattern("Red Blood Cell Count", "dec"), Pattern("RBC", "dec")>>
          [] k = "systolic" ->
               <<Pattern("Blood Pressure (Systolic)", "int"), Pattern("Systolic", "int")>>
          [] k = "diastolic" ->
               <<Pattern("Blood Pressure (Diastolic)", "int"), Pattern("Diastolic", "int")>>
          [] k = "glucose" ->
               <<Pattern("Glucose", "int"), Pattern("Blood Sugar", "int")>>]

\* ------------------------------------------------------- re.finditer
IsTok(text, i, t) == i <= Len(text) /\ text[i].tok = t

\* the position of the number a match starting at token i would capture:
\* label \s* [:=]? \s* group
GroupPos(text, i) == IF IsTok(text, i + 1, "sep") THEN i + 2 ELSE i + 1

MatchAt(pattern, text, i) ==
    /\ IsTok(text, i, "word")
    /\ text[i].s = pattern.label
    /\ LET j == GroupPos(text, i)
       IN  IF pattern.group = "dec" THEN IsTok(text, j, "dec")
           ELSE IsTok(text, j, "int") \/ IsTok(text, j, "dec")

\* match.group(1): the digits captured, as thousandths; (\d+) stops at the
\* decimal point of a literal
Group1(pattern, text, i) ==
    LET lit == text[GroupPos(text, i)]
    IN  IF pattern.group = "dec" THEN lit.whole * 1000 + lit.milli
        ELSE lit.whole * 1000

\* float() raises ValueError on no string that \d+ or \d+\.\d+ captures
FloatParses(thousandths) == thousandths >= 0

\* as PatternValues, were each value inserted at the front of the list
RECURSIVE PatternValuesNewestFirst(_, _, _)
PatternValuesNewestFirst(pattern, text, i) ==
    IF i > Len(text) THEN <<>>
    ELSE IF MatchAt(pattern, text, i)
         THEN PatternValuesNewestFirst(pattern, text, GroupPos(text, i) + 1)
              \o <<PyFloat(ParseMilli(Group1(pattern, text, i)))>>
         ELSE PatternValuesNewestFirst(pattern, text, i + 1)

\* the values appended for one pattern: its matches left to right, not
\* overlapping
RECURSIVE PatternValues(_, _, _)
PatternValues(pattern, text, i) ==
    IF i > Len(text) THEN <<>>
    ELSE IF MatchAt(pattern, text, i)
         THEN (IF FloatParses(Group1(pattern, text, i))
               THEN <<PyFloat(ParseMilli(Group1(pattern, text, i)))>>
               ELSE <<>>)
              \o PatternValues(pattern, text, GroupPos(text, i) + 1)
         ELSE PatternValues(pattern, text, i + 1)

\* as KindValues, were the loop over the patterns left after the first one
KindValuesFirstOnly(patterns, text, p) ==
    IF p > Len(patterns) THEN <<>> ELSE PatternValues(patterns[p], text, 1)

RECURSIVE KindValues(_, _, _)
KindValues(patterns, text, p) ==
    IF p > Len(patterns) THEN <<>>
    ELSE PatternValues(patterns[p], text, 1) \o KindValues(patterns, text, p + 1)

\* as extract_medical_data, were a kind's list created at its first match
extract_medical_data_sparse(text) ==
    [k \in {kk \in Kinds : KindValues(MEDICAL_PATTERNS[kk], text, 1) # <<>>} |->
        KindValues(MEDICAL_PATTERNS[k], text, 1)]

extract_medical_data(text) ==
    [k \in Kinds |-> KindValues(MEDICAL_PATTERNS[k], text, 1)]

\* ---------------------------------------------------- generate_report
RECURSIVE FSum(_)
FSum(vs) ==
    IF Len(vs) = 1 THEN vs[1].v
    ELSE FAdd(FSum(SubSeq(vs, 1, Len(vs) - 1)), vs[Len(vs)].v)

\* np.mean: the values added left to right, the sum divided by their number
np_mean(vs) == FDiv(FSum(vs), Len(vs))

py_min(vs) == (CHOOSE i \in 1..Len(vs) : \A j \in 1..Len(vs) : BCmp(vs[i].v, vs[j].v) <= 0)
py_max(vs) == (CHOOSE i \in 1..Len(vs) : \A j \in 1..Len(vs) : BCmp(vs[i].v, vs[j].v) >= 0)

\* as HasStatistics, were the test "if len(values) > 1"
HasStatisticsSeveral(values) == Len(values) > 1

\* the kinds that get a statistics entry: "if values:"
HasStatistics(values) == values # <<>>

Statistic(values) ==
    [average |-> NpRound2(np_mean(values)),
     min     |-> PyRound2(values[py_min(values)].v),
     max     |-> PyRound2(values[py_max(values)].v),
     count   |-> Len(values)]

Statistics(data) ==
    [k \in {kk \in DOMAIN data : HasStatistics(data[kk])} |-> Statistic(data[k])]

\* the lengths max() ranges over: "len(values) for values in data.values() if values"
CountedLengths(data) == {Len(data[k]) : k \in {kk \in DOMAIN data : data[kk] # <<>>}}

\* max() of an empty sequence raises ValueError
ReportRaises(data) == CountedLengths(data) = {}

max_measurements(data) ==
    CHOOSE n \in CountedLengths(data) : \A m \in CountedLengths(data) : m <= n

\* as Cell, were a short list padded with its last value
CellRepeatLast(values, i) ==
    IF i <= Len(values) THEN values[i]
    ELSE IF values # <<>> THEN values[Len(values)] ELSE PyNone

\* measurement[key] of row i (rows and lists counted from 1 here)
Cell(values, i) == IF i <= Len(values) THEN values[i] ELSE PyNone

Measurements(data) ==
    [i \in 1..max_measurements(data) |-> [k \in DOMAIN data |-> Cell(data[k], i)]]

generate_report(data, filename, now) ==
    [filename      |-> filename,
     date_analyzed |-> now,
     statistics    |-> Statistics(data),
     measurements  |-> Measurements(data)]

\* ----------------------------------------------- create_visualizations
Charts == <<"blood_pressure", "rbc", "glucose">>

FilePrefix(chart) == IF chart = "blood_pressure" THEN "bp" ELSE chart

\* the condition under which a chart is drawn
ChartDrawn(chart, data) ==
    IF chart = "blood_pressure"
    THEN "systolic" \in DOMAIN data /\ "diastolic" \in DOMAIN data
    ELSE chart \in DOMAIN data

\* f'{prefix}_{timestamp}.png', the timestamp formatted to the second
ChartFile(chart, timestamp) == <<FilePrefix(chart), timestamp>>

\* ----------------------------------------------------------- analyze_pdf
PreviewChars == 1000

RECURSIVE TextChars(_)
TextChars(text) == IF text = <<>> THEN 0 ELSE Head(text).w + TextChars(Tail(text))

\* full_text[:1000] + ("..." if len(full_text) > 1000 else ""), as the number
\* of characters of the text it starts with and whether the dots follow
DebugText(text) ==
    [chars    |-> IF TextChars(text) > PreviewChars THEN PreviewChars ELSE TextChars(text),
     ellipsis |-> TextChars(text) > PreviewChars]

\* full_text += f"--- Page {i+1} ---\n{text}\n" for every page
RECURSIVE FullText(_, _)
FullText(pages, i) ==
    IF i > Len(pages) THEN <<>>
    ELSE <<PageMarker(i)>> \o pages[i] \o <<Newline>> \o FullText(pages, i + 1)

\* as NoData, were the test "if not medical_data"
NoDataNoKeys(data) == DOMAIN data = {}

\* "if not any(medical_data.values())"
NoData(data) == \A k \in DOMAIN data : data[k] = <<>>

\* allowed_file: a dot in the name and the lower-cased extension is pdf
Lower(ext) == IF ext = "PDF" THEN "pdf" ELSE ext
allowed_file(filename) == filename.ext # "" /\ Lower(filename.ext) \in {"pdf"}

NoResponse == [code |-> 0]
ErrorResponse(code, message) == [code |-> code, error |-> message]
NoDataResponse(text) ==
    [code |-> 400, error |-> "No medical data found in the document",
     debug_text |-> DebugText(text)]
SuccessResponse(report, visualizations) ==
    [code |-> 200, status |-> "success", report |-> report,
     visualizations |-> visualizations]

\* --------------------------------------------------------------- inputs
NoUpload == [has_file |-> FALSE, name |-> "", ext |-> ""]
Upload(name, ext) == [has_file |-> TRUE, name |-> name, ext |-> ext]
Uploads == {NoUpload, Upload("", ""), Upload("notes", "txt"), Upload("report", "PDF")}

BlankPage == <<>>
OtherPage == <<Other(600)>>
NearMissPage ==
    <<Word("RBC", 3), Sep, IntLit(5, 1), Word("Systolic", 8), Sep, Sep, IntLit(120, 3),
      Word("Glucose", 7)>>
ExamplePage ==
    <<Word("Systolic", 8), Sep, IntLit(120, 3), Word("Diastolic", 9), Sep, IntLit(80, 2),
      Word("Systolic", 8), Sep, IntLit(130, 3), Word("Diastolic", 9), Sep, IntLit(85, 2),
      Word("Glucose", 7), Sep, IntLit(95, 2)>>
RbcPage ==
    <<Word("RBC", 3), Sep, DecLit(3, 5, 5), Word("Red Blood Cell Count", 20),
      DecLit(4, 500, 5)>>

\* the documents OCR reads: the pages' texts
Documents ==
    {<<>>, <<BlankPage>>, <<OtherPage>>, <<OtherPage, OtherPage>>, <<BlankPage, NearMissPage>>,
     <<ExamplePage>>, <<RbcPage>>}

Threads == {"t1", "t2"}

VARIABLES clock, static, served, pc, reqid, filename, full_text, medical_data,
          timestamp, visualizations, response,
          fn_pc, fn_text, fn_data, fn_report

locals == <<pc, reqid, filename, full_text, medical_data, timestamp, visualizations>>
fn_vars == <<fn_pc, fn_text, fn_data, fn_report>>
vars == <<clock, static, served, locals, response, fn_vars>>

EmptyMap == [k \in {} |-> 0]
NoFile == [name |-> "", ext |-> ""]

Init ==
    /\ clock = 0
    /\ static = EmptyMap
    /\ served = 0
    /\ pc = [t \in Threads |-> "idle"]
    /\ reqid = [t \in Threads |-> 0]
    /\ filename = [t \in Threads |-> NoFile]
    /\ full_text = [t \in Threads |-> <<>>]
    /\ medical_data = [t \in Threads |-> EmptyMap]
    /\ timestamp = [t \in Threads |-> 0]
    /\ visualizations = [t \in Threads |-> EmptyMap]
    /\ response = [t \in Threads |-> NoResponse]
    /\ fn_pc = "off"
    /\ fn_text = <<>>
    /\ fn_data = EmptyMap
    /\ fn_report = EmptyMap

\* the handler returns: its locals are gone, the response is delivered
Return(t, r) ==
    /\ response' = [response EXCEPT ![t] = r]
    /\ pc' = [pc EXCEPT ![t] = "idle"]
    /\ filename' = [filename EXCEPT ![t] = NoFile]
    /\ full_text' = [full_text EXCEPT ![t] = <<>>]
    /\ medical_data' = [medical_data EXCEPT ![t] = EmptyMap]
    /\ timestamp' = [timestamp EXCEPT ![t] = 0]
    /\ visualizations' = [visualizations EXCEPT ![t] = EmptyMap]

\* a request arrives and is validated
Receive(t) ==
    /\ pc[t] = "idle"
    /\ served < MaxRequests
    /\ served' = served + 1
    /\ reqid' = [reqid EXCEPT ![t] = served + 1]
    /\ \E up \in Uploads :
          IF ~up.has_file
          THEN Return(t, ErrorResponse(400, "No file uploaded"))
          ELSE IF up.name = "" /\ up.ext = ""
          THEN Return(t, ErrorResponse(400, "No selected file"))
          ELSE IF ~allowed_file(up)
          THEN Return(t, ErrorResponse(400, "Only PDF files are accepted"))
          ELSE /\ pc' = [pc EXCEPT ![t] = "ocr"]
               /\ filename' = [filename EXCEPT ![t] = [name |-> up.name, ext |-> up.ext]]
               /\ response' = [response EXCEPT ![t] = NoResponse]
               /\ UNCHANGED <<full_text, medical_data, timestamp, visualizations>>
    /\ UNCHANGED <<clock, static, fn_vars>>

\* saving, rasterizing or OCR raises
OcrFails(t) ==
    /\ pc[t] = "ocr"
    /\ Return(t, ErrorResponse(500, "ocr"))
    /\ UNCHANGED <<clock, static, served, reqid, fn_vars>>

\* the pages are rasterized and read
Ocr(t) ==
    /\ pc[t] = "ocr"
    /\ \E doc \in Documents : full_text' = [full_text EXCEPT ![t] = FullText(doc, 1)]
    /\ pc' = [pc EXCEPT ![t] = "extract"]
    /\ UNCHANGED <<clock, static, served, reqid, filename, medical_data, timestamp,
                   visualizations, response, fn_vars>>

\* extract_medical_data and the no-data check
Extract(t) ==
    /\ pc[t] = "extract"
    /\ LET data == extract_medical_data(full_text[t])
       IN  IF NoData(data)
           THEN Return(t, NoDataResponse(full_text[t]))
           ELSE /\ medical_data' = [medical_data EXCEPT ![t] = data]
                /\ pc' = [pc EXCEPT ![t] = "visualize"]
                /\ UNCHANGED <<filename, full_text, timestamp, visualizations, response>>
    /\ UNCHANGED <<clock, static, served, reqid, fn_vars>>

\* create_visualizations starts: the timestamp is read off the clock
StartCharts(t) ==
    /\ pc[t] = "visualize"
    /\ timestamp' = [timestamp EXCEPT ![t] = clock]
    /\ visualizations' = [visualizations EXCEPT ![t] = EmptyMap]
    /\ pc' = [pc EXCEPT ![t] = Charts[1]]
    /\ UNCHANGED <<clock, static, served, reqid, filename, full_text, medical_data,
                   response, fn_vars>>

ChartIndex(chart) == CHOOSE i \in 1..Len(Charts) : Charts[i] = chart
AfterChart(chart) ==
    IF ChartIndex(chart) < Len(Charts) THEN Charts[ChartIndex(chart) + 1] ELSE "report"

Put(map, key, value) ==
    [k \in DOMAIN map \cup {key} |-> IF k = key THEN value ELSE map[k]]

\* one chart: drawn and saved under the timestamp's name, or skipped
SaveChart(t) ==
    /\ pc[t] \in {Charts[i] : i \in 1..Len(Charts)}
    /\ LET chart == pc[t]
       IN  IF ChartDrawn(chart, medical_data[t])
           THEN /\ static' = Put(static, ChartFile(chart, timestamp[t]), reqid[t])
                /\ visualizations' =
                      [visualizations EXCEPT
                          ![t] = Put(@, chart, ChartFile(chart, timestamp[t]))]
                /\ pc' = [pc EXCEPT ![t] = AfterChart(chart)]
           ELSE /\ pc' = [pc EXCEPT ![t] = AfterChart(chart)]
                /\ UNCHANGED <<static, visualizations>>
    /\ UNCHANGED <<clock, served, reqid, filename, full_text, medical_data, timestamp,
                   response, fn_vars>>

\* savefig raises: the exception leaves create_visualizations and is caught
\* by the handler's "except Exception"
SaveChartFails(t) ==
    /\ pc[t] \in {Charts[i] : i \in 1..Len(Charts)}
    /\ ChartDrawn(pc[t], medical_data[t])
    /\ Return(t, ErrorResponse(500, "savefig failed"))
    /\ UNCHANGED <<clock, static, served, reqid, fn_vars>>

\* generate_report and the success response
Report(t) ==
    /\ pc[t] = "report"
    /\ IF ReportRaises(medical_data[t])
       THEN Return(t, ErrorResponse(500, "max() arg is an empty sequence"))
       ELSE Return(t, SuccessResponse(
                         generate_report(medical_data[t], filename[t], clock),
                         visualizations[t]))
    /\ UNCHANGED <<clock, static, served, reqid, fn_vars>>

\* a second passes
Tick ==
    /\ clock < MaxClock
    /\ clock' = clock + 1
    /\ UNCHANGED <<static, served, locals, response, fn_vars>>

Next ==
    \/ Tick
    \/ \E t \in Threads :
          \/ Receive(t)
          \/ OcrFails(t)
          \/ Ocr(t)
          \/ Extract(t)
          \/ StartCharts(t)
          \/ SaveChart(t)
          \/ SaveChartFails(t)
          \/ Report(t)

Spec == Init /\ [][Next]_vars

\* ------------------------------- extract_medical_data applied on its own
LabelWords ==
    {Word("Red Blood Cell Count", 20), Word("RBC", 3),
     Word("Blood Pressure (Systolic)", 25), Word("Systolic", 8),
     Word("Blood Pressure (Diastolic)", 26), Word("Diastolic", 9),
     Word("Glucose", 7), Word("Blood Sugar", 11)}

Alphabet == LabelWords \cup {Sep, IntLit(120, 3), DecLit(3, 5, 5), DecLit(4, 500, 3)}

Texts == UNION {[1..n -> Alphabet] : n \in 0..MaxTextLen}

InitExtract ==
    /\ Init!1 /\ Init!2 /\ Init!3 /\ Init!4 /\ Init!5 /\ Init!6 /\ Init!7 /\ Init!8
    /\ Init!9 /\ Init!10 /\ Init!11
    /\ fn_pc = "text"
    /\ fn_text \in Texts
    /\ fn_data = EmptyMap
    /\ fn_report = EmptyMap

ExtractStep ==
    /\ fn_pc = "text"
    /\ fn_data' = extract_medical_data(fn_text)
    /\ fn_pc' = "extracted"
    /\ UNCHANGED <<clock, static, served, locals, response, fn_text, fn_report>>

NextExtract == ExtractStep

SpecExtract == InitExtract /\ [][NextExtract]_vars

\* ------------------------------------ generate_report applied on its own
SeqsUpTo(S, n) == UNION {[1..m -> S] : m \in 0..n}

RbcValues == {PyFloat(ParseMilli(3005)), PyFloat(ParseMilli(4500))}
SystolicValues == {PyFloat(ParseMilli(120000)), PyFloat(ParseMilli(130000))}
DiastolicValues == {PyFloat(ParseMilli(80000))}
GlucoseValues == {PyFloat(ParseMilli(95000))}

\* the ExtractionResults generate_report is called with: some kind has a value
ExtractionResults ==
    {d \in [rbc : SeqsUpTo(RbcValues, MaxSeqLen),
            systolic : SeqsUpTo(SystolicValues, MaxSeqLen),
            diastolic : SeqsUpTo(DiastolicValues, MaxSeqLen),
            glucose : SeqsUpTo(GlucoseValues, MaxSeqLen)] : ~NoData(d)}

InitReport ==
    /\ Init!1 /\ Init!2 /\ Init!3 /\ Init!4 /\ Init!5 /\ Init!6 /\ Init!7 /\ Init!8
    /\ Init!9 /\ Init!10 /\ Init!11
    /\ fn_pc = "data"
    /\ fn_text = <<>>
    /\ fn_data \in ExtractionResults
    /\ fn_report = EmptyMap

ReportStep ==
    /\ fn_pc = "data"
    /\ fn_report' = generate_report(fn_data, [name |-> "report", ext |-> "PDF"], 0)
    /\ fn_pc' = "reported"
    /\ UNCHANGED <<clock, static, served, locals, response, fn_text, fn_data>>

NextReport == ReportStep

SpecReport == InitReport /\ [][NextReport]_vars

\* ================================================================ claims
NonEmpty(data, k) == k \in DOMAIN data /\ data[k] # <<>>

IsNoDataResponse(r) ==
    r.code = 400 /\ r.error = "No medical data found in the document"
IsSuccessResponse(r) == r.code = 200
IsErrorResponse(r) == r.code = 500

Drawn(t, chart) ==
    /\ chart \in DOMAIN visualizations[t]
    /\ ChartFile(chart, timestamp[t]) \in DOMAIN static

\* C1: when create_visualizations has run, the blood_pressure chart is
\* produced iff systolic and diastolic are both non-empty, and the rbc
\* (glucose) chart iff the rbc (glucose) sequence is non-empty.
C1_ChartIffSeriesNonEmpty ==
    \A t \in Threads :
        pc[t] = "report" =>
            /\ Drawn(t, "blood_pressure") <=>
                  (NonEmpty(medical_data[t], "systolic")
                   /\ NonEmpty(medical_data[t], "diastolic"))
            /\ Drawn(t, "rbc") <=> NonEmpty(medical_data[t], "rbc")
            /\ Drawn(t, "glucose") <=> NonEmpty(medical_data[t], "glucose")

\* C2: the artifact store is append-only: no step changes or removes a
\* chart file that was written before it.
C2_ArtifactsNeverOverwritten ==
    [][\A f \in DOMAIN static : f \in DOMAIN static' /\ static'[f] = static[f]]_vars

LongestLen(data) ==
    CHOOSE n \in {Len(data[k]) : k \in Kinds} : \A k \in Kinds : Len(data[k]) <= n

\* C3: the report has as many rows as the longest sequence; every row has
\* every kind; row i holds the kind's i-th value when there is one and None
\* otherwise, not 0.0 and not the kind's last value.
C3_RowsAlignedWithAbsence ==
    fn_pc = "reported" =>
        LET rows == fn_report.measurements
        IN  /\ Len(rows) = LongestLen(fn_data)
            /\ \A i \in 1..Len(rows) :
                  /\ DOMAIN rows[i] = Kinds
                  /\ \A k \in Kinds :
                        IF i <= Len(fn_data[k])
                        THEN rows[i][k] = fn_data[k][i]
                        ELSE /\ rows[i][k] = PyNone
                             /\ rows[i][k] # PyFloat(<<>>)
                             /\ fn_data[k] # <<>> =>
                                   rows[i][k] # fn_data[k][Len(fn_data[k])]

C3_Witness ==
    /\ fn_pc = "reported"
    /\ \E k \in Kinds : 0 < Len(fn_data[k]) /\ Len(fn_data[k]) < Len(fn_report.measurements)
    /\ \E k \in Kinds : fn_data[k] = <<>>

\* C4: a kind is a key of the statistics map iff its sequence is non-empty.
C4_StatisticsIffNonEmpty ==
    fn_pc = "reported" =>
        DOMAIN fn_report.statistics = {k \in Kinds : fn_data[k] # <<>>}

C4_Witness ==
    /\ fn_pc = "reported"
    /\ \E k \in Kinds : fn_data[k] = <<>>
    /\ \E k \in Kinds : Len(fn_data[k]) = 1

Least(values) ==
    CHOOSE x \in {values[i].v : i \in 1..Len(values)} :
        \A j \in 1..Len(values) : BCmp(x, values[j].v) <= 0
Greatest(values) ==
    CHOOSE x \in {values[i].v : i \in 1..Len(values)} :
        \A j \in 1..Len(values) : BCmp(x, values[j].v) >= 0

\* C5: for every kind with values, min <= average <= max after each is
\* rounded to two decimals; min and max are the least and the greatest
\* value; count is the number of values.
C5_AverageWithinMinMax ==
    fn_pc = "reported" =>
        \A k \in DOMAIN fn_report.statistics :
            LET st == fn_report.statistics[k]
            IN  /\ st.min <= st.average
                /\ st.average <= st.max
                /\ st.min = PyRound2(Least(fn_data[k]))
                /\ st.max = PyRound2(Greatest(fn_data[k]))
                /\ st.count = Len(fn_data[k])

\* the matches of one pattern in a text, as the set of their first tokens
MatchStarts(pattern, text) == {i \in 1..Len(text) : MatchAt(pattern, text, i)}

\* the elements of a finite set of integers, ascending
RECURSIVE Ascending(_)
Ascending(S) ==
    IF S = {} THEN <<>>
    ELSE LET m == CHOOSE x \in S : \A y \in S : x <= y
         IN  <<m>> \o Ascending(S \ {m})

MatchValue(pattern, text, i) == PyFloat(ParseMilli(Group1(pattern, text, i)))

\* C6: a kind's sequence has k1 + k2 values: those of the k1 matches of its
\* first pattern in text order, then those of the k2 matches of its second
\* pattern in text order; none merged, sorted or dropped as a duplicate.
C6_FirstPatternThenSecond ==
    fn_pc = "extracted" =>
        \A k \in Kinds :
            LET P1 == MEDICAL_PATTERNS[k][1]
                P2 == MEDICAL_PATTERNS[k][2]
                m1 == Ascending(MatchStarts(P1, fn_text))
                m2 == Ascending(MatchStarts(P2, fn_text))
            IN  /\ Len(fn_data[k]) = Len(m1) + Len(m2)
                /\ \A n \in 1..Len(m1) : fn_data[k][n] = MatchValue(P1, fn_text, m1[n])
                /\ \A n \in 1..Len(m2) :
                      fn_data[k][Len(m1) + n] = MatchValue(P2, fn_text, m2[n])

\* a match of the second pattern that starts before a match of the first
\* and captures another value
C6_Witness ==
    /\ fn_pc = "extracted"
    /\ \E k \in Kinds :
          LET P1 == MEDICAL_PATTERNS[k][1]
              P2 == MEDICAL_PATTERNS[k][2]
          IN  \E i \in MatchStarts(P1, fn_text), j \in MatchStarts(P2, fn_text) :
                 j < i /\ MatchValue(P1, fn_text, i) # MatchValue(P2, fn_text, j)

\* the matches of a kind, whichever pattern found them, and their values in
\* the order the matches start in the text
PatternAt(k, text, i) ==
    CHOOSE p \in 1..Len(MEDICAL_PATTERNS[k]) : MatchAt(MEDICAL_PATTERNS[k][p], text, i)
KindStarts(k, text) ==
    UNION {MatchStarts(MEDICAL_PATTERNS[k][p], text) : p \in 1..Len(MEDICAL_PATTERNS[k])}
ReadingOrder(k, text) ==
    LET m == Ascending(KindStarts(k, text))
    IN  [n \in 1..Len(m) |->
            MatchValue(MEDICAL_PATTERNS[k][PatternAt(k, text, m[n])], text, m[n])]

\* C7 as stated: every kind's sequence is in document reading order,
\* whichever pattern produced each match.
C7_ReadingOrder ==
    fn_pc = "extracted" => \A k \in Kinds : fn_data[k] = ReadingOrder(k, fn_text)

\* no match of a later-listed pattern starts before a match of an
\* earlier-listed pattern of the kind
PatternsInOrder(k, text) ==
    \A p \in 1..Len(MEDICAL_PATTERNS[k]), q \in 1..Len(MEDICAL_PATTERNS[k]) :
        p < q =>
            \A i \in MatchStarts(MEDICAL_PATTERNS[k][p], text),
               j \in MatchStarts(MEDICAL_PATTERNS[k][q], text) : i < j

\* C7 amended: a kind's sequence is in document reading order whenever no
\* match of a later-listed pattern of the kind starts before a match of an
\* earlier-listed one.
C7_ReadingOrderWhenPatternsInOrder ==
    fn_pc = "extracted" =>
        \A k \in Kinds :
            PatternsInOrder(k, fn_text) => fn_data[k] = ReadingOrder(k, fn_text)

C7_Witness ==
    /\ fn_pc = "extracted"
    /\ \E k \in Kinds :
          /\ PatternsInOrder(k, fn_text)
          /\ Len(fn_data[k]) = 2
          /\ fn_data[k][1] # fn_data[k][2]

ZeroOccurrences(text) ==
    \A k \in Kinds : \A p \in 1..Len(MEDICAL_PATTERNS[k]) :
        MatchStarts(MEDICAL_PATTERNS[k][p], text) = {}

\* C8: on a text without any occurrence of a pattern, extract_medical_data
\* yields every kind with an empty sequence and the request ends with the
\* no-data response, whose preview is the first 1000 characters at most.
C8_NoOccurrenceEndsInNoData ==
    [][\A t \in Threads :
          (pc[t] = "extract" /\ pc'[t] # "extract" /\ ZeroOccurrences(full_text[t])) =>
              /\ DOMAIN extract_medical_data(full_text[t]) = Kinds
              /\ \A k \in Kinds : extract_medical_data(full_text[t])[k] = <<>>
              /\ IsNoDataResponse(response'[t])
              /\ ~IsSuccessResponse(response'[t])
              /\ ~IsErrorResponse(response'[t])
              /\ response'[t].debug_text.chars <= PreviewChars
              /\ response'[t].debug_text.chars <= TextChars(full_text[t])
              /\ response'[t].debug_text.ellipsis <=>
                    TextChars(full_text[t]) > PreviewChars]_vars

C8_Witness ==
    \E t \in Threads :
        /\ IsNoDataResponse(response[t])
        /\ response[t].debug_text.ellipsis
        /\ response[t].debug_text.chars = PreviewChars

\* C9: a chart that fails to be written does not abort the request: no
\* request ends with the error of a failed savefig.
C9_ChartFailureIsolated ==
    \A t \in Threads :
        IsErrorResponse(response[t]) => response[t].error # "savefig failed"

InCharts(t) == pc[t] \in {"visualize", "report"} \cup {Charts[i] : i \in 1..Len(Charts)}

\* C10: charts and rows are built only once the all-kinds-empty check has
\* passed: a request in create_visualizations or about to call
\* generate_report has a kind with a value, and a request that ended with
\* the no-data response wrote no chart and built no report.
C10_ReportOnlyAfterCheck ==
    \A t \in Threads :
        /\ InCharts(t) => \E k \in Kinds : NonEmpty(medical_data[t], k)
        /\ (pc[t] = "idle" /\ IsNoDataResponse(response[t])) =>
              /\ \A f \in DOMAIN static : static[f] # reqid[t]
              /\ "report" \notin DOMAIN response[t]
              /\ "visualizations" \notin DOMAIN response[t]

C10_Witness ==
    /\ \E t \in Threads : pc[t] = "idle" /\ IsNoDataResponse(response[t])
    /\ \E t \in Threads : pc[t] = "report"
    /\ static # EmptyMap
====
